---- MODULE Spec2Model ----
(***************************************************************************)
(* Galileo E1 DLL + PLL VEML tracking block                                *)
(* (galileo_e1_dll_pll_veml_tracking_cc.cc) as a state machine.            *)
(*                                                                         *)
(* Numbers.  Sample counts are integers.  The float quantities that carry  *)
(* a fraction of a sample (acquisition code phase, code-phase remainders,  *)
(* T_prn_samples, K_blk_samples) are fixed-point integers counting 1/Q     *)
(* sample.  Carrier phases count 1/TwoPiUnits of a turn.  The values of    *)
(* the model stay far below 2^24, where float and the int/unsigned long    *)
(* conversions of the source are exact, so no width is lost.               *)
(*                                                                         *)
(* External collaborators (correlator kernel, discriminators, loop         *)
(* filters, C/N0 estimator, lock detector) are not part of the file: what  *)
(* they return is an input of the call, drawn from small sets.             *)
(***************************************************************************)
EXTENDS Integers, Sequences, FiniteSets, TLC

\* ------------------------------------------------------------ constants
CN0_ESTIMATION_SAMPLES == 10
MINIMUM_VALID_CN0 == 25
MAXIMUM_LOCK_FAIL_COUNTER == 200
\* d_carrier_lock_threshold, set once by the constructor
d_carrier_lock_threshold == 20
\* the channel command sent on loss of lock
LOSS_OF_LOCK_COMMAND == 2

\* ------------------------------------------------------------ bounds
\* d_vector_length: nominal samples per PRN period (constructor argument)
VectorLength == 16
\* fixed-point resolution: 1/Q sample
Q == 2
\* fixed-point resolution of a carrier phase: 1/TwoPiUnits turn
TwoPiUnits == 4
\* general_work is not called once this many samples were consumed (Spec)
MaxSamples == 49
\* Galileo_E1_B_CODE_LENGTH_CHIPS: chips of the primary code, scaled down
CodeLengthChips == 4
\* correlator spacings are held in 1/ChipUnits chip
ChipUnits == 4
\* the code NCO command is followed up to this magnitude (SpecCode)
MaxCodeNco == 24
\* running epochs of a SpecCode run
MaxCodeEpochs == 8
\* set_channel calls that try to open the dump file (SpecDump)
MaxOpens == 3
\* number of early windows whose verdict is free in the long scenario
FreeWindows == 2

\* ------------------------------------------------------------ input sets
Channels == {0, 1}
\* values an uninitialised member may hold
Garbage == {0, 1}
QueuePtrs == {"null", "queue"}
\* acquisition code phase, in 1/Q sample: 0, 1/Q sample, vl - 1/Q
AcqDelays == {0, 1, Q * VectorLength - 1}
AcqDopplers == {-1, 1}
AcqStamps == {0, 2}
\* the handoff records offered: every code phase at every stamp, a positive
\* Doppler with the first PRN and a negative one with the second
Handoffs ==
    {h \in [PRN : {1, 2}, Acq_delay_samples : AcqDelays,
            Acq_doppler_hz : AcqDopplers, Acq_samplestamp_samples : AcqStamps] :
        /\ (h.PRN = 1) = (h.Acq_doppler_hz > 0)
        /\ (h.PRN = 1) = (h.Acq_samplestamp_samples = 0)}
\* code-loop and carrier-loop NCO commands returned by the loop filters
\* <<early_late_space_chips, very_early_late_space_chips>> given to the
\* constructor, the second greater than the first
Spacings == {<<1, 2>>, <<1, 3>>, <<1, 5>>}
DefaultSpacing == <<1, 2>>
\* what a read outside d_ca_code may return
StrayReads == {0, 1}
\* values of the normalised DLL discriminator
CodeErrors == {-1, 0, 1}
CodeNcos == {-1, 0, 1}
CarrNcos == {-1, 0}
\* C/N0 estimates around MINIMUM_VALID_CN0, lock tests around the threshold
CN0Values == {MINIMUM_VALID_CN0 - 1, MINIMUM_VALID_CN0}
LockTests ==
    {-(d_carrier_lock_threshold + 1), d_carrier_lock_threshold,
     d_carrier_lock_threshold + 1}

\* ------------------------------------------------------------ arithmetic
Abs(x) == IF x < 0 THEN -x ELSE x

\* C fmod on integer-valued operands: the remainder has the sign of a
Fmod(a, m) == IF a >= 0 THEN a % m ELSE -((-a) % m)

\* C round on a value of h/Q: to the nearest integer, halves away from zero
RoundQ(h) == IF h >= 0 THEN (2 * h + Q) \div (2 * Q)
             ELSE -((2 * (-h) + Q) \div (2 * Q))

\* ------------------------------------------------------------ state
VARIABLES
    d_queue,                        \* control queue pointer given at construction
    queue,                          \* messages handled by the control queue
    d_channel,
    d_acquisition_gnss_synchro,     \* "unset" or "bound"
    gnss_synchro,                   \* the record the pointer is bound to
    d_acq_code_phase_samples,
    d_acq_carrier_doppler_hz,
    d_acq_sample_stamp,
    d_sample_counter,
    d_enable_tracking,
    d_pull_in,
    d_current_prn_length_samples,
    d_next_prn_length_samples,
    d_rem_code_phase_samples,
    d_next_rem_code_phase_samples,
    d_rem_carr_phase_rad,
    d_acc_carrier_phase_rad,
    d_code_freq_hz,                 \* offset from Galileo_E1_CODE_CHIP_RATE_HZ
    d_carrier_doppler_hz,
    d_cn0_estimation_counter,
    d_Prompt_buffer,
    d_Prompt,
    d_carrier_lock_test,
    d_CN0_SNV_dB_Hz,
    d_carrier_lock_fail_counter,
    d_ca_code,                      \* indices 0 .. 2 * CodeLengthChips + 3
    d_code_loop_filter,             \* output register of the DLL filter
    d_carrier_loop_filter,          \* output register of the PLL filter
    d_early_late_spc_chips,         \* in 1/ChipUnits chip
    d_very_early_late_spc_chips,    \* in 1/ChipUnits chip
    d_very_early_code,              \* the entries written by the last epoch
    d_early_code,
    d_prompt_code,
    d_late_code,
    d_very_late_code,
    local_code,                     \* the locals of the last update_local_code
    chip_remainder,                 \* its fmod results, in 1/HalfChipUnits half chip
    d_dump,
    d_dump_file,                    \* [is_open, records]
    d_dump_filename,                \* the suffixes appended to the configured name
    out,                            \* the output item out[0] of the last call
    consumed,                       \* sum of the consume_each amounts
    call,                           \* what the last call did
    run                             \* epochs and windows since start_tracking

vars == <<d_queue, queue, d_channel, d_acquisition_gnss_synchro, gnss_synchro,
          d_acq_code_phase_samples, d_acq_carrier_doppler_hz, d_acq_sample_stamp,
          d_sample_counter, d_enable_tracking, d_pull_in,
          d_current_prn_length_samples, d_next_prn_length_samples,
          d_rem_code_phase_samples, d_next_rem_code_phase_samples,
          d_rem_carr_phase_rad, d_acc_carrier_phase_rad, d_code_freq_hz,
          d_carrier_doppler_hz, d_cn0_estimation_counter, d_Prompt_buffer,
          d_Prompt, d_carrier_lock_test, d_CN0_SNV_dB_Hz,
          d_carrier_lock_fail_counter, d_ca_code, d_code_loop_filter,
          d_carrier_loop_filter, d_early_late_spc_chips,
          d_very_early_late_spc_chips, d_very_early_code, d_early_code,
          d_prompt_code, d_late_code, d_very_late_code, local_code, chip_remainder,
          d_dump,
          d_dump_file, d_dump_filename,
          out, consumed, call, run>>

\* groups left alone by several operations
acqVars == <<d_acq_code_phase_samples, d_acq_carrier_doppler_hz, d_acq_sample_stamp>>
codeVars == <<d_next_prn_length_samples, d_rem_code_phase_samples,
              d_next_rem_code_phase_samples, d_code_freq_hz>>
carrVars == <<d_rem_carr_phase_rad, d_acc_carrier_phase_rad, d_carrier_doppler_hz>>
monitorVars == <<d_cn0_estimation_counter, d_Prompt_buffer, d_carrier_lock_test,
                 d_CN0_SNV_dB_Hz, d_carrier_lock_fail_counter>>
bindVars == <<d_acquisition_gnss_synchro, gnss_synchro>>
filterVars == <<d_code_loop_filter, d_carrier_loop_filter>>
configVars == <<d_early_late_spc_chips, d_very_early_late_spc_chips, d_dump>>
replicaVars == <<d_very_early_code, d_early_code, d_prompt_code, d_late_code,
                 d_very_late_code, local_code, chip_remainder>>

\* ------------------------------------------------------------ records
\* a default-constructed Gnss_Synchro
DefaultSynchro ==
    [PRN |-> 0, Acq_delay_samples |-> 0, Acq_doppler_hz |-> 0,
     Acq_samplestamp_samples |-> 0, Prompt_I |-> 0, Prompt_Q |-> 0,
     Tracking_timestamp_secs |-> 0, Carrier_phase_rads |-> 0, CN0_dB_hz |-> 0]

\* the acquisition fields of a record
AcqFields(r) ==
    [PRN |-> r.PRN, Acq_delay_samples |-> r.Acq_delay_samples,
     Acq_doppler_hz |-> r.Acq_doppler_hz,
     Acq_samplestamp_samples |-> r.Acq_samplestamp_samples]

\* what a call that is not general_work leaves in call
NoWork(op) ==
    [op |-> op, sample_counter |-> d_sample_counter, consumed |-> 0,
     produced |-> 0, written |-> 0, samples_offset |-> 0, evaluated |-> FALSE, failed |-> FALSE,
     fail_count |-> 0, loss |-> FALSE, posted |-> 0, window |-> <<>>,
     dump_attempt |-> FALSE]

\* *d_acquisition_gnss_synchro: the bound record, or any value when the
\* pointer was never set (it is not initialised by the constructor)
Deref(pool) == IF d_acquisition_gnss_synchro = "bound" THEN {gnss_synchro} ELSE pool

\* ------------------------------------------------------------ local code
\* update_local_code: int code_length_half_chips
code_length_half_chips == 2 * CodeLengthChips

\* chip k (from 0) of the primary code of a satellite
PrimaryCode(prn, k) == IF k % (prn + 1) = 0 THEN 1 ELSE -1

\* galileo_e1_code_gen_complex_sampled at two samples per chip: sample j
\* (from 0) of the sinBOC(1,1) code, a chip followed by its negation
CodeSample(prn, j) == PrimaryCode(prn, j \div 2) * (IF j % 2 = 0 THEN 1 ELSE -1)

\* the array after the generator wrote at &d_ca_code[2]
GeneratedCode(ca_code, prn) ==
    [i \in DOMAIN ca_code |->
        IF i \in 2..(code_length_half_chips + 1) THEN CodeSample(prn, i - 2)
        ELSE ca_code[i]]

\* mutant: only the two samples before the code are wrapped
CyclicExtension_prefix_only(ca_code) ==
    [ca_code EXCEPT ![0] = ca_code[code_length_half_chips],
                    ![1] = ca_code[code_length_half_chips + 1]]

\* the array after the four guard samples were copied from the other end
CyclicExtension(ca_code) ==
    [ca_code EXCEPT ![0] = ca_code[code_length_half_chips],
                    ![1] = ca_code[code_length_half_chips + 1],
                    ![code_length_half_chips + 2] = ca_code[2],
                    ![code_length_half_chips + 3] = ca_code[3]]

\* ------------------------------------------------------------ constructor
Init ==
    /\ d_queue \in QueuePtrs
    /\ queue = <<>>
    /\ d_sample_counter = 0
    /\ d_acq_sample_stamp = 0
    /\ d_enable_tracking = FALSE
    /\ d_pull_in = FALSE
    /\ d_current_prn_length_samples = VectorLength
    /\ d_code_freq_hz = 0
    /\ d_rem_code_phase_samples = 0
    /\ d_rem_carr_phase_rad = 0
    /\ d_cn0_estimation_counter = 0
    /\ d_Prompt_buffer = [i \in 1..CN0_ESTIMATION_SAMPLES |-> 0]
    /\ d_Prompt = 0
    /\ d_carrier_lock_test = 1
    /\ d_CN0_SNV_dB_Hz = 0
    /\ d_carrier_lock_fail_counter = 0
    /\ d_ca_code = [i \in 0..(code_length_half_chips + 3) |-> 0]
    /\ d_code_loop_filter = 0
    /\ d_carrier_loop_filter = 0
    /\ \E spacing \in Spacings :
           /\ d_early_late_spc_chips = spacing[1]
           /\ d_very_early_late_spc_chips = spacing[2]
    /\ d_dump \in BOOLEAN
    /\ d_dump_file = [is_open |-> FALSE, records |-> <<>>]
    /\ d_dump_filename = <<>>
    \* scratch arrays: allocated, nothing written yet
    /\ d_very_early_code = <<>>
    /\ d_early_code = <<>>
    /\ d_prompt_code = <<>>
    /\ d_late_code = <<>>
    /\ d_very_late_code = <<>>
    /\ chip_remainder = <<>>
    /\ local_code = [early_late_spc_samples |-> 0, very_early_late_spc_samples |-> 0,
                     epl_loop_length_samples |-> 0, associated_chip_index |-> <<>>]
    \* members the constructor leaves uninitialised
    /\ d_channel \in Channels
    /\ d_acquisition_gnss_synchro = "unset"
    /\ gnss_synchro = CHOOSE h \in Handoffs : TRUE
    /\ \E g \in Garbage :
           /\ d_acq_code_phase_samples = g
           /\ d_acq_carrier_doppler_hz = g
           /\ d_next_prn_length_samples = g
           /\ d_next_rem_code_phase_samples = g
           /\ d_acc_carrier_phase_rad = g
           /\ d_carrier_doppler_hz = g
    \* the scheduler's side
    /\ out = DefaultSynchro
    /\ consumed = 0
    /\ call = NoWork("constructor")
    /\ run = [epochs |-> 0, evals |-> 0, fails |-> 0, streak |-> 0, c0 |-> 0,
              window |-> <<>>, pull_ins |-> 0, started |-> FALSE, returned |-> 0,
              drift |-> 0, lo |-> 0, hi |-> 0]

\* ------------------------------------------------------------ set_channel
\* d_dump_filename.append(channel).append(".dat")
DumpFilenameAppend(filename, channel) == Append(filename, channel)

\* opened: whether d_dump_file.open succeeds
set_channel(channel, opened) ==
    /\ d_channel' = channel
    /\ d_dump_filename' = IF d_dump /\ ~d_dump_file.is_open
                          THEN DumpFilenameAppend(d_dump_filename, channel)
                          ELSE d_dump_filename
    /\ d_dump_file' = IF d_dump /\ ~d_dump_file.is_open
                      THEN [d_dump_file EXCEPT !.is_open = opened]
                      ELSE d_dump_file
    /\ call' = NoWork("set_channel")
    /\ run' = IF d_dump /\ ~d_dump_file.is_open THEN [run EXCEPT !.returned = 0]
              ELSE run
    /\ UNCHANGED <<d_queue, queue, bindVars, acqVars, d_sample_counter,
                   d_enable_tracking, d_pull_in, d_current_prn_length_samples,
                   codeVars, carrVars, monitorVars, d_Prompt, out, consumed,
                   d_ca_code, filterVars, configVars, replicaVars>>

\* ------------------------------------------------------------ set_gnss_synchro
set_gnss_synchro(p_gnss_synchro) ==
    /\ d_acquisition_gnss_synchro' = "bound"
    /\ gnss_synchro' = p_gnss_synchro
    /\ call' = NoWork("set_gnss_synchro")
    /\ UNCHANGED <<d_queue, queue, d_channel, acqVars, d_sample_counter,
                   d_enable_tracking, d_pull_in, d_current_prn_length_samples,
                   codeVars, carrVars, monitorVars, d_Prompt, out, consumed, run,
                   d_ca_code, filterVars, configVars, d_dump_filename, replicaVars, d_dump_file>>

\* ------------------------------------------------------------ start_tracking
\* h is *d_acquisition_gnss_synchro as read by the call
start_tracking(h) ==
    /\ d_acq_code_phase_samples' = h.Acq_delay_samples
    /\ d_acq_carrier_doppler_hz' = h.Acq_doppler_hz
    /\ d_acq_sample_stamp' = h.Acq_samplestamp_samples
    /\ d_carrier_loop_filter' = h.Acq_doppler_hz
    /\ d_code_loop_filter' = h.Acq_delay_samples
    /\ d_ca_code' = CyclicExtension(GeneratedCode(d_ca_code, h.PRN))
    /\ d_carrier_lock_fail_counter' = 0
    /\ d_rem_code_phase_samples' = 0
    /\ d_rem_carr_phase_rad' = 0
    /\ d_next_rem_code_phase_samples' = 0
    /\ d_acc_carrier_phase_rad' = 0
    /\ d_carrier_doppler_hz' = h.Acq_doppler_hz
    /\ d_next_prn_length_samples' = VectorLength
    /\ d_pull_in' = TRUE
    /\ d_enable_tracking' = TRUE
    /\ call' = NoWork("start_tracking")
    /\ run' = [epochs |-> 0, evals |-> 0, fails |-> 0, streak |-> 0,
               c0 |-> d_cn0_estimation_counter, window |-> run.window,
               pull_ins |-> 0, started |-> TRUE, returned |-> run.returned,
               drift |-> 0, lo |-> 0, hi |-> 0]
    /\ UNCHANGED <<d_queue, queue, d_channel, bindVars, d_sample_counter,
                   d_current_prn_length_samples, d_code_freq_hz,
                   d_cn0_estimation_counter, d_Prompt_buffer, d_carrier_lock_test,
                   d_CN0_SNV_dB_Hz, d_Prompt, out, consumed, configVars, d_dump_filename,
                   replicaVars, d_dump_file>>

\* ------------------------------------------------------------ general_work
\* forecast: ninput_items_required[0], the samples available to every call
forecast == 2 * VectorLength

\* mutant: the remainder is added instead of its complement to a period
SamplesOffset_remainder_only(sample_counter, acq_sample_stamp, next_prn_length_samples, acq_code_phase_samples) ==
    RoundQ(acq_code_phase_samples
           + Q * Fmod(sample_counter - acq_sample_stamp, next_prn_length_samples))

\* mutant: the remainder is added to a period instead of subtracted
SamplesOffset_remainder_added(sample_counter, acq_sample_stamp, next_prn_length_samples, acq_code_phase_samples) ==
    RoundQ(acq_code_phase_samples
           + Q * (next_prn_length_samples
                  + Fmod(sample_counter - acq_sample_stamp, next_prn_length_samples)))

\* pull-in: the number of samples to skip to reach the next PRN start
SamplesOffset(sample_counter, acq_sample_stamp, next_prn_length_samples, acq_code_phase_samples) ==
    LET acq_to_trk_delay_samples == sample_counter - acq_sample_stamp
        acq_trk_shif_correction_samples ==
            next_prn_length_samples
                - Fmod(acq_to_trk_delay_samples, next_prn_length_samples)
    IN  RoundQ(acq_code_phase_samples + Q * acq_trk_shif_correction_samples)

\* mutant: every call is counted as one nominal period
SampleCounterAfter_nominal(sample_counter, n) == sample_counter + VectorLength

\* the sample counter after n more samples were processed
SampleCounterAfter(sample_counter, n) == sample_counter + n

\* mutant: pull-in is not ended
PullInAfterAlignment_kept == TRUE

\* mutant: pull-in is repeated while the counter is behind the acquisition
PullInAfterAlignment_while_behind == d_sample_counter < d_acq_sample_stamp

\* the value d_pull_in is given once the input is aligned
PullInAfterAlignment == FALSE

\* the output item of a call that does not write out[0]: what the slot held
UnwrittenItems == {out, DefaultSynchro}

\* the dump section runs and its writes succeed
Dumping == d_dump /\ d_dump_file.is_open

general_work_pull_in ==
    /\ d_enable_tracking
    /\ d_pull_in
    /\ LET samples_offset ==
               SamplesOffset(d_sample_counter, d_acq_sample_stamp,
                             d_next_prn_length_samples, d_acq_code_phase_samples)
       IN  /\ d_sample_counter' = SampleCounterAfter(d_sample_counter, samples_offset)
           /\ consumed' = consumed + samples_offset
           /\ call' = [NoWork("pull_in") EXCEPT !.consumed = samples_offset,
                           !.produced = 1, !.samples_offset = samples_offset]
    /\ d_pull_in' = PullInAfterAlignment
    /\ out' \in UnwrittenItems
    /\ run' = [run EXCEPT !.pull_ins = @ + 1,
                          !.returned = IF Dumping THEN @ + 1 ELSE @]
    /\ UNCHANGED <<d_queue, queue, d_channel, bindVars, acqVars, d_enable_tracking,
                   d_current_prn_length_samples, codeVars, carrVars, monitorVars,
                   d_Prompt, d_ca_code, filterVars, configVars, d_dump_filename,
                   replicaVars, d_dump_file>>

\* bytes of the 19 writes of the dump section: seven floats, an unsigned
\* long, nine floats, a float and a double
DumpRecordBytes == 7 * 4 + 8 + 9 * 4 + 4 + 8

\* the record the dump section writes at the end of a call, from the members
\* as the call left them; carr_nco, code_nco: the call's locals
DumpRecord(carr_nco, code_nco) ==
    [Prompt |-> d_Prompt',
     sample_counter |-> d_sample_counter,
     acc_carrier_phase_rad |-> d_acc_carrier_phase_rad',
     carrier_doppler_hz |-> d_carrier_doppler_hz',
     code_freq_hz |-> d_code_freq_hz',
     carr_nco |-> carr_nco,
     code_nco |-> code_nco,
     CN0_SNV_dB_Hz |-> d_CN0_SNV_dB_Hz',
     carrier_lock_test |-> d_carrier_lock_test',
     rem_code_phase_samples |-> d_rem_code_phase_samples',
     sample_counter_end |-> d_sample_counter + d_current_prn_length_samples',
     bytes |-> DumpRecordBytes]

\* if (d_dump) { ... d_dump_file.write ... }
dump(carr_nco, code_nco) ==
    d_dump_file' = IF Dumping
                   THEN [d_dump_file EXCEPT
                            !.records = Append(@, DumpRecord(carr_nco, code_nco))]
                   ELSE d_dump_file

\* the Prompt correlator output of an epoch, named by the epoch's first sample
CorrelatorPrompt(sample_stamp) == sample_stamp

\* update_local_carrier: the phase after current_prn_length_samples steps
CarrierPhaseEnd(rem_carr_phase_rad, carrier_doppler_hz, current_prn_length_samples) ==
    rem_carr_phase_rad + current_prn_length_samples * carrier_doppler_hz

\* the PRN period in 1/Q sample at a code frequency (offset from nominal)
T_prn_samples(code_freq_hz) == Q * VectorLength - code_freq_hz

\* ------------------------------------------------------------ update_local_code
\* C round of a / b for b > 0: to the nearest integer, halves away from zero
RoundRatio(a, b) == IF a >= 0 THEN (2 * a + b) \div (2 * b)
                    ELSE -((b - 2 * a) \div (2 * b))

\* round(spc_chips / code_phase_step_chips): the samples a spacing spans,
\* code_phase_step_chips being CodeLengthChips chips per PRN period
SpacingSamples(spc_chips, code_freq_hz) ==
    RoundRatio(spc_chips * T_prn_samples(code_freq_hz), ChipUnits * CodeLengthChips * Q)

\* half chips are counted in 1/HalfChipUnits
HalfChipUnits(code_freq_hz) == ChipUnits * T_prn_samples(code_freq_hz)

\* tcode_half_chips - 2*d_very_early_late_spc_chips at loop index i:
\* tcode_half_chips starts at -rem_code_phase_half_chips and advances by
\* code_phase_step_half_chips per sample
CodePhaseHalfChips(i, code_freq_hz, rem_code_phase_samples, very_early_late_spc_chips) ==
    2 * CodeLengthChips * ChipUnits * (Q * i - rem_code_phase_samples)
        - 2 * very_early_late_spc_chips * T_prn_samples(code_freq_hz)

\* fmod(tcode_half_chips - 2*d_very_early_late_spc_chips, code_length_half_chips)
ChipRemainder(i, code_freq_hz, rem_code_phase_samples, very_early_late_spc_chips) ==
    Fmod(CodePhaseHalfChips(i, code_freq_hz, rem_code_phase_samples,
                            very_early_late_spc_chips),
         code_length_half_chips * HalfChipUnits(code_freq_hz))

\* associated_chip_index = 2 + round(fmod(...)), remainder being the fmod
AssociatedChipIndex(remainder, code_freq_hz) ==
    2 + RoundRatio(remainder, HalfChipUnits(code_freq_hz))

\* d_ca_code[index]; a read outside the array returns stray
ReadCode(index, stray) == IF index \in DOMAIN d_ca_code THEN d_ca_code[index] ELSE stray

\* the four memcpy source offsets into d_very_early_code
EarlyOffset(el, vel) == vel - el
PromptOffset(el, vel) == vel
LateOffset(el, vel) == 2 * vel - el
VeryLateOffset(el, vel) == 2 * vel

\* memcpy(tap, &very_early_code[offset], current_prn_length_samples * ...)
Tap(very_early_code, offset, current_prn_length_samples) ==
    [i \in 0..(current_prn_length_samples - 1) |-> very_early_code[i + offset]]

\* the values a call's reads outside d_ca_code may return: one per call
StrayReadsOf(associated_chip_index) ==
    IF \A i \in DOMAIN associated_chip_index :
           associated_chip_index[i] \in DOMAIN d_ca_code
    THEN {0} ELSE StrayReads

\* update_local_code, d_current_prn_length_samples already advanced to
\* current_prn_length_samples; local_code keeps the locals of the call and
\* chip_remainder the value of fmod at each loop index
update_local_code(current_prn_length_samples) ==
    /\ chip_remainder' =
           [i \in 0..(current_prn_length_samples - 1
                       + 2 * SpacingSamples(d_very_early_late_spc_chips,
                                            d_code_freq_hz)) |->
               ChipRemainder(i, d_code_freq_hz, d_rem_code_phase_samples,
                             d_very_early_late_spc_chips)]
    /\ local_code' =
           [early_late_spc_samples |->
                SpacingSamples(d_early_late_spc_chips, d_code_freq_hz),
            very_early_late_spc_samples |->
                SpacingSamples(d_very_early_late_spc_chips, d_code_freq_hz),
            epl_loop_length_samples |->
                current_prn_length_samples
                    + 2 * SpacingSamples(d_very_early_late_spc_chips, d_code_freq_hz),
            associated_chip_index |->
                [i \in DOMAIN chip_remainder' |->
                    AssociatedChipIndex(chip_remainder'[i], d_code_freq_hz)]]
    /\ \E stray \in StrayReadsOf(local_code'.associated_chip_index) :
           d_very_early_code' =
               [i \in DOMAIN local_code'.associated_chip_index |->
                   ReadCode(local_code'.associated_chip_index[i], stray)]
    /\ d_early_code' =
           Tap(d_very_early_code',
               EarlyOffset(local_code'.early_late_spc_samples,
                           local_code'.very_early_late_spc_samples),
               current_prn_length_samples)
    /\ d_prompt_code' =
           Tap(d_very_early_code',
               PromptOffset(local_code'.early_late_spc_samples,
                            local_code'.very_early_late_spc_samples),
               current_prn_length_samples)
    /\ d_late_code' =
           Tap(d_very_early_code',
               LateOffset(local_code'.early_late_spc_samples,
                          local_code'.very_early_late_spc_samples),
               current_prn_length_samples)
    /\ d_very_late_code' =
           Tap(d_very_early_code',
               VeryLateOffset(local_code'.early_late_spc_samples,
                              local_code'.very_early_late_spc_samples),
               current_prn_length_samples)

\* mutant: the window closes one epoch earlier
WindowFilling_short(cn0_estimation_counter) ==
    cn0_estimation_counter < CN0_ESTIMATION_SAMPLES - 1

\* whether an epoch stores its Prompt (otherwise it closes the window)
WindowFilling(cn0_estimation_counter) ==
    cn0_estimation_counter < CN0_ESTIMATION_SAMPLES

\* the lock test of one C/N0 window
WindowFails(carrier_lock_test, CN0_SNV_dB_Hz) ==
    \/ Abs(carrier_lock_test) > d_carrier_lock_threshold
    \/ CN0_SNV_dB_Hz < MINIMUM_VALID_CN0

\* mutant: the decrement has no floor
FailCounterUpdate_unfloored(fail_counter, failing) ==
    IF failing THEN fail_counter + 1 ELSE fail_counter - 1

\* d_carrier_lock_fail_counter after the verdict of a window
FailCounterUpdate(fail_counter, failing) ==
    IF failing THEN fail_counter + 1
    ELSE IF fail_counter > 0 THEN fail_counter - 1 ELSE fail_counter

\* mutant: lock is lost when the counter reaches the maximum
LossOfLock_at_maximum(fail_counter) == fail_counter >= MAXIMUM_LOCK_FAIL_COUNTER

LossOfLock(fail_counter) == fail_counter > MAXIMUM_LOCK_FAIL_COUNTER

\* mutant: the message is not handed to the queue
HandleLossMessage_dropped(q) == q

\* mutant: the retired internal message code 3 is sent
HandleLossMessage_code3(q) ==
    IF d_queue # "null" THEN Append(q, <<d_channel, 3>>) ELSE q

\* the messages the control queue holds after a loss of lock
HandleLossMessage(q) ==
    IF d_queue # "null" THEN Append(q, <<d_channel, LOSS_OF_LOCK_COMMAND>>) ELSE q

\* the new streak of failing windows that began with a fail counter of 0
\* (-1: the failing windows in progress did not begin at 0)
StreakAfter(streak, failing, fail_count) ==
    IF failing THEN (IF streak >= 0 THEN streak + 1 ELSE -1)
    ELSE (IF fail_count = 0 THEN 0 ELSE -1)

\* the values the call's collaborators may return: code_ncos, carr_ncos from
\* the loop filters, CN0s, locks from the lock monitor; hs: what
\* *d_acquisition_gnss_synchro may hold when the call reads it
\* K_blk_samples = T_prn_samples + d_rem_code_phase_samples, in 1/Q sample:
\* the period plus the rounding remainder the epoch before left
K_blk_samples_uncarried(T_prn, rem_code_phase_samples) == T_prn

K_blk_samples(T_prn, rem_code_phase_samples) == T_prn + rem_code_phase_samples

\* d_current_prn_length_samples = d_next_prn_length_samples, the first
\* statement of an epoch after the handoff record is read: the length of the
\* epoch is the one the epoch before (or start_tracking) computed
CurrentPrnLength_kept(current_prn_length_samples, next_prn_length_samples) ==
    current_prn_length_samples

CurrentPrnLength(current_prn_length_samples, next_prn_length_samples) ==
    next_prn_length_samples

\* no return statement lies between the lock monitor and the end of
\* general_work: the output section, consume_each and the sample counter
\* are reached whether or not the monitor has just declared loss of lock
EpochCompletes_unless_lost(loss) == ~loss

EpochCompletes(loss) == TRUE

general_work_running(code_ncos, carr_ncos, CN0s, locks, hs) ==
    /\ d_enable_tracking
    /\ ~d_pull_in
    /\ d_current_prn_length_samples' =
           CurrentPrnLength(d_current_prn_length_samples, d_next_prn_length_samples)
    /\ update_local_code(d_current_prn_length_samples')
    /\ \E code_nco \in code_ncos, carr_nco \in carr_ncos, CN0 \in CN0s,
          lock \in locks, h \in hs :
       LET current_prn_length_samples == d_current_prn_length_samples'
           phase_rad == CarrierPhaseEnd(d_rem_carr_phase_rad, d_carrier_doppler_hz,
                                        current_prn_length_samples)
           rem_carr_phase_rad == Fmod(phase_rad, TwoPiUnits)
           acc_carrier_phase_rad == d_acc_carrier_phase_rad + rem_carr_phase_rad
           Prompt == CorrelatorPrompt(d_sample_counter)
           code_freq_hz == 0 - code_nco
           blk_samples == K_blk_samples(T_prn_samples(code_freq_hz),
                                        d_next_rem_code_phase_samples)
           next_prn_length_samples == RoundQ(blk_samples)
           next_rem_code_phase_samples == blk_samples - Q * next_prn_length_samples
           drift == run.drift + Q * next_prn_length_samples
                        - T_prn_samples(code_freq_hz)
           filling == WindowFilling(d_cn0_estimation_counter)
           failing == WindowFails(lock, CN0)
           fail_count == FailCounterUpdate(d_carrier_lock_fail_counter, failing)
           loss == LossOfLock(fail_count)
           CN0_SNV_dB_Hz == IF filling THEN d_CN0_SNV_dB_Hz ELSE CN0
           completes == EpochCompletes(~filling /\ loss)
           processed == IF completes THEN current_prn_length_samples ELSE 0
       IN  /\ d_rem_carr_phase_rad' = rem_carr_phase_rad
           /\ d_acc_carrier_phase_rad' = acc_carrier_phase_rad
           /\ d_Prompt' = Prompt
           /\ d_carrier_loop_filter' = carr_nco
           /\ d_carrier_doppler_hz' = d_acq_carrier_doppler_hz + carr_nco
           /\ d_code_loop_filter' = code_nco
           /\ d_code_freq_hz' = code_freq_hz
           /\ d_rem_code_phase_samples' = d_next_rem_code_phase_samples
           /\ d_next_prn_length_samples' = next_prn_length_samples
           /\ d_next_rem_code_phase_samples' = next_rem_code_phase_samples
           /\ IF filling
              THEN /\ d_Prompt_buffer' =
                          [d_Prompt_buffer EXCEPT ![d_cn0_estimation_counter + 1] = Prompt]
                   /\ d_cn0_estimation_counter' = d_cn0_estimation_counter + 1
                   /\ UNCHANGED <<d_CN0_SNV_dB_Hz, d_carrier_lock_test,
                                  d_carrier_lock_fail_counter, d_enable_tracking, queue>>
              ELSE /\ d_cn0_estimation_counter' = 0
                   /\ d_CN0_SNV_dB_Hz' = CN0
                   /\ d_carrier_lock_test' = lock
                   /\ d_carrier_lock_fail_counter' = IF loss THEN 0 ELSE fail_count
                   /\ d_enable_tracking' = IF loss THEN FALSE ELSE d_enable_tracking
                   /\ queue' = IF loss THEN HandleLossMessage(queue) ELSE queue
                   /\ UNCHANGED d_Prompt_buffer
           /\ out' = IF completes
                      THEN [AcqFields(h) @@ DefaultSynchro EXCEPT
                               !.Prompt_I = Prompt, !.Prompt_Q = Prompt,
                               !.Tracking_timestamp_secs =
                                   Q * d_sample_counter + Q * next_prn_length_samples
                                       + next_rem_code_phase_samples,
                               !.Carrier_phase_rads = acc_carrier_phase_rad,
                               !.CN0_dB_hz = CN0_SNV_dB_Hz]
                      ELSE out
           /\ consumed' = consumed + processed
           /\ d_sample_counter' = SampleCounterAfter(d_sample_counter, processed)
           /\ call' = [NoWork("running") EXCEPT
                          !.consumed = processed,
                          !.produced = 1,
                          !.written = IF completes THEN 1 ELSE 0,
                          !.evaluated = ~filling,
                          !.failed = ~filling /\ failing,
                          !.fail_count = IF filling THEN d_carrier_lock_fail_counter
                                         ELSE fail_count,
                          !.loss = ~filling /\ loss,
                          !.posted = Len(queue') - Len(queue),
                          !.window = IF filling THEN <<>>
                                     ELSE Append(run.window, Prompt),
                          !.dump_attempt = d_dump]
           /\ run' = IF filling
                     THEN [run EXCEPT !.epochs = @ + 1,
                                      !.drift = drift,
                                      !.lo = IF drift < @ THEN drift ELSE @,
                                      !.hi = IF drift > @ THEN drift ELSE @,
                                      !.window = Append(@, Prompt),
                                      !.returned = IF Dumping THEN @ + 1 ELSE @]
                     ELSE [run EXCEPT
                              !.returned = IF Dumping THEN @ + 1 ELSE @,
                              !.epochs = @ + 1,
                              !.drift = drift,
                              !.lo = IF drift < @ THEN drift ELSE @,
                              !.hi = IF drift > @ THEN drift ELSE @,
                              !.evals = @ + 1,
                              !.fails = @ + (IF failing THEN 1 ELSE 0),
                              !.streak = StreakAfter(@, failing, fail_count),
                              !.window = <<>>]
           /\ dump(carr_nco, code_nco)
    /\ UNCHANGED <<d_queue, d_channel, bindVars, acqVars, d_pull_in, d_ca_code,
                   configVars, d_dump_filename>>

\* Gnss_Synchro current_synchro_data; *out[0] = current_synchro_data: the
\* item the idle branch leaves in the output buffer, previous the item the
\* buffer held
IdleRecord_unwritten(previous) == previous

IdleRecord(previous) == DefaultSynchro

general_work_idle ==
    /\ ~d_enable_tracking
    /\ d_Prompt' = 0
    /\ out' = IdleRecord(out)
    /\ consumed' = consumed + d_current_prn_length_samples
    /\ d_sample_counter' =
           SampleCounterAfter(d_sample_counter, d_current_prn_length_samples)
    /\ call' = [NoWork("idle") EXCEPT !.consumed = d_current_prn_length_samples,
                    !.produced = 1, !.written = 1, !.dump_attempt = d_dump]
    /\ run' = [run EXCEPT !.returned = IF Dumping THEN @ + 1 ELSE @]
    /\ UNCHANGED <<d_queue, queue, d_channel, bindVars, acqVars, d_enable_tracking,
                   d_pull_in, d_current_prn_length_samples, codeVars, carrVars,
                   monitorVars, d_ca_code, filterVars, configVars, d_dump_filename,
                   replicaVars>>
    \* carr_nco and code_nco are locals this branch never assigns
    /\ \E g \in (IF Dumping THEN Garbage ELSE {0}) : dump(g, g)

\* the monitor outputs a call can see: they are read only when a window closes
MonitorInputs(values, unused) ==
    IF WindowFilling(d_cn0_estimation_counter) THEN {unused} ELSE values

\* ------------------------------------------------------------ Spec
\* every operation, every input, for as long as MaxSamples allows
SetChannel == \E channel \in Channels : set_channel(channel, TRUE)

SetGnssSynchro == \E p_gnss_synchro \in Handoffs : set_gnss_synchro(p_gnss_synchro)

StartTracking == \E h \in Deref(Handoffs) : start_tracking(h)

WorkPullIn == d_sample_counter < MaxSamples /\ general_work_pull_in

WorkRunning ==
    /\ d_sample_counter < MaxSamples
    /\ general_work_running(CodeNcos, CarrNcos,
                            MonitorInputs(CN0Values, d_CN0_SNV_dB_Hz),
                            MonitorInputs(LockTests, d_carrier_lock_test),
                            Deref(Handoffs))

WorkIdle == d_sample_counter < MaxSamples /\ general_work_idle

Next ==
    \/ SetChannel
    \/ SetGnssSynchro
    \/ StartTracking
    \/ WorkPullIn
    \/ WorkRunning
    \/ WorkIdle

\* the block as the default configuration builds it: no dump, spacings of
\* one and two samples
InitDefault ==
    /\ Init
    /\ ~d_dump
    /\ <<d_early_late_spc_chips, d_very_early_late_spc_chips>> = DefaultSpacing

Spec == InitDefault /\ [][Next]_vars

\* ------------------------------------------------------------ SpecLock
\* The long scenario: one channel, one handoff record, loop filters at rest,
\* run until the lock monitor gives up.  The caller configures and restarts
\* the block only in its first EarlySamples samples or after a loss of lock;
\* only the first FreeWindows windows of a run may pass the lock test.
LockHandoffs == {h \in Handoffs : h.PRN = 1 /\ h.Acq_delay_samples = 0}

EarlySamples == 2 * VectorLength + 1

\* epochs of the longest run to a loss of lock, and the samples it takes
LockEpochs ==
    (CN0_ESTIMATION_SAMPLES + 1) * (MAXIMUM_LOCK_FAIL_COUNTER + 1 + 2 * FreeWindows)

LockSamples == EarlySamples + (LockEpochs + 4) * VectorLength

\* no run started in the first EarlySamples samples loses lock before this
LossFloor ==
    (CN0_ESTIMATION_SAMPLES + 1) * MAXIMUM_LOCK_FAIL_COUNTER * VectorLength

InitLock == InitDefault /\ d_channel = 0 /\ d_next_prn_length_samples = 0

LockSetChannel == d_sample_counter <= EarlySamples /\ set_channel(0, TRUE)

LockSetGnssSynchro ==
    /\ d_sample_counter <= EarlySamples
    /\ \E p_gnss_synchro \in LockHandoffs : set_gnss_synchro(p_gnss_synchro)

LockStartTracking ==
    /\ d_sample_counter <= EarlySamples \/ ~d_enable_tracking
    /\ \E h \in Deref(LockHandoffs) : start_tracking(h)

LockWorkPullIn == d_sample_counter < LockSamples /\ general_work_pull_in

LockWorkRunning ==
    /\ d_sample_counter < LockSamples
    /\ general_work_running({0}, {0},
                            MonitorInputs(IF run.evals < FreeWindows THEN CN0Values
                                          ELSE {MINIMUM_VALID_CN0 - 1},
                                          d_CN0_SNV_dB_Hz),
                            MonitorInputs(IF run.evals < FreeWindows THEN LockTests
                                          ELSE {d_carrier_lock_threshold},
                                          d_carrier_lock_test),
                            Deref(LockHandoffs))

LockWorkIdle ==
    /\ \/ d_sample_counter < VectorLength
       \/ d_sample_counter >= LossFloor /\ d_sample_counter < LockSamples
    /\ general_work_idle

NextLock ==
    \/ LockSetChannel
    \/ LockSetGnssSynchro
    \/ LockStartTracking
    \/ LockWorkPullIn
    \/ LockWorkRunning
    \/ LockWorkIdle

SpecLock == InitLock /\ [][NextLock]_vars

\* ------------------------------------------------------------ SpecCode
\* The code loop on its own: every spacing configuration, one handoff record
\* with code phase zero, a carrier loop at rest and a lock monitor that
\* passes.  The DLL filter integrates the code errors it is fed; the run is
\* followed until the scratch arrays are overrun.
DllGain == 4

\* get_code_nco: the accumulator grows by the gain times the code error,
\* and is the command returned
DllFilter(code_nco, code_error) == code_nco + DllGain * code_error

\* update_local_code wrote or read past the 2 * d_vector_length elements of
\* a scratch array
ScratchOverrun == local_code.epl_loop_length_samples > 2 * VectorLength

InitCode ==
    /\ Init
    /\ ~d_dump
    /\ d_queue = "queue"
    /\ d_channel = 0
    /\ d_next_prn_length_samples = 0

CodeSetGnssSynchro ==
    /\ d_acquisition_gnss_synchro = "unset"
    /\ \E p_gnss_synchro \in LockHandoffs : set_gnss_synchro(p_gnss_synchro)

CodeStartTracking ==
    /\ d_acquisition_gnss_synchro = "bound"
    /\ ~run.started
    /\ \E h \in Deref(LockHandoffs) : start_tracking(h)

CodeWorkPullIn == general_work_pull_in

CodeWorkRunning ==
    /\ run.epochs < MaxCodeEpochs
    /\ ~ScratchOverrun
    /\ general_work_running(
           {code_nco \in {DllFilter(d_code_loop_filter, e) : e \in CodeErrors} :
               Abs(code_nco) <= MaxCodeNco},
           {0},
           MonitorInputs({MINIMUM_VALID_CN0}, d_CN0_SNV_dB_Hz),
           MonitorInputs({d_carrier_lock_threshold}, d_carrier_lock_test),
           Deref(LockHandoffs))

NextCode ==
    \/ CodeSetGnssSynchro
    \/ CodeStartTracking
    \/ CodeWorkPullIn
    \/ CodeWorkRunning

SpecCode == InitCode /\ [][NextCode]_vars

\* ------------------------------------------------------------ SpecDump
\* The block built with dump = true: one channel, one handoff record, loops
\* at rest, a lock monitor that passes; opening the dump file may fail.
DumpSamples == 4 * VectorLength

InitDump ==
    /\ Init
    /\ d_dump
    /\ <<d_early_late_spc_chips, d_very_early_late_spc_chips>> = DefaultSpacing
    /\ d_queue = "queue"
    /\ d_channel = 0
    /\ d_next_prn_length_samples = 0

DumpSetChannel ==
    /\ Len(d_dump_filename) < MaxOpens
    /\ \E opened \in BOOLEAN : set_channel(0, opened)

DumpSetGnssSynchro ==
    /\ d_acquisition_gnss_synchro = "unset"
    /\ \E p_gnss_synchro \in LockHandoffs : set_gnss_synchro(p_gnss_synchro)

DumpStartTracking ==
    /\ d_acquisition_gnss_synchro = "bound"
    /\ d_sample_counter < DumpSamples
    /\ ~d_enable_tracking
    /\ \E h \in Deref(LockHandoffs) : start_tracking(h)

DumpWorkPullIn == d_sample_counter < DumpSamples /\ general_work_pull_in

DumpWorkRunning ==
    /\ d_sample_counter < DumpSamples
    /\ general_work_running({0}, {0},
                            MonitorInputs({MINIMUM_VALID_CN0}, d_CN0_SNV_dB_Hz),
                            MonitorInputs({d_carrier_lock_threshold},
                                          d_carrier_lock_test),
                            Deref(LockHandoffs))

DumpWorkIdle == d_sample_counter < DumpSamples /\ general_work_idle

NextDump ==
    \/ DumpSetChannel
    \/ DumpSetGnssSynchro
    \/ DumpStartTracking
    \/ DumpWorkPullIn
    \/ DumpWorkRunning
    \/ DumpWorkIdle

SpecDump == InitDump /\ [][NextDump]_vars

\* ------------------------------------------------------------ SpecHandoff
\* The handoff record after it was bound: set_gnss_synchro stores only the
\* pointer, the record stays with the acquisition subsystem, which writes
\* its next result into it between two calls of the block.  One channel,
\* loops at rest, a lock monitor that passes.
HandoffSamples == 4 * VectorLength

\* a write to *d_acquisition_gnss_synchro from outside the block
AcquisitionWrites(h) ==
    /\ d_acquisition_gnss_synchro = "bound"
    /\ h # gnss_synchro
    /\ gnss_synchro' = h
    /\ UNCHANGED <<d_queue, queue, d_channel, d_acquisition_gnss_synchro, acqVars,
                   d_sample_counter, d_enable_tracking, d_pull_in,
                   d_current_prn_length_samples, codeVars, carrVars, monitorVars,
                   d_Prompt, out, consumed, call, run, d_ca_code, filterVars,
                   configVars, d_dump_filename, replicaVars, d_dump_file>>

InitHandoff ==
    /\ InitDefault
    /\ d_queue = "queue"
    /\ d_channel = 0
    /\ d_next_prn_length_samples = 0

HandoffSetGnssSynchro ==
    /\ d_acquisition_gnss_synchro = "unset"
    /\ \E p_gnss_synchro \in Handoffs : set_gnss_synchro(p_gnss_synchro)

HandoffAcquisitionWrites ==
    /\ d_sample_counter < HandoffSamples
    /\ \E h \in Handoffs : AcquisitionWrites(h)

HandoffStartTracking ==
    /\ d_acquisition_gnss_synchro = "bound"
    /\ d_sample_counter < HandoffSamples
    /\ ~d_enable_tracking
    /\ \E h \in Deref(Handoffs) : start_tracking(h)

HandoffWorkPullIn == d_sample_counter < HandoffSamples /\ general_work_pull_in

HandoffWorkRunning ==
    /\ d_sample_counter < HandoffSamples
    /\ general_work_running({0}, {0},
                            MonitorInputs({MINIMUM_VALID_CN0}, d_CN0_SNV_dB_Hz),
                            MonitorInputs({d_carrier_lock_threshold},
                                          d_carrier_lock_test),
                            Deref(Handoffs))

NextHandoff ==
    \/ HandoffSetGnssSynchro
    \/ HandoffAcquisitionWrites
    \/ HandoffStartTracking
    \/ HandoffWorkPullIn
    \/ HandoffWorkRunning

SpecHandoff == InitHandoff /\ [][NextHandoff]_vars

\* ------------------------------------------------------------ claims
\* the tracking state of section 4.6
Mode ==
    IF d_enable_tracking THEN (IF d_pull_in THEN "PULL_IN" ELSE "RUNNING")
    ELSE (IF d_pull_in THEN "none" ELSE "IDLE")

\* one step of the state machine, the operation named by call'
ModeStep ==
    /\ call'.op = "start_tracking" => Mode' = "PULL_IN"
    /\ call'.op \in {"set_channel", "set_gnss_synchro"} => Mode' = Mode
    /\ call'.op = "pull_in" => Mode = "PULL_IN" /\ Mode' = "RUNNING"
    /\ call'.op = "idle" => Mode = "IDLE" /\ Mode' = "IDLE"
    /\ call'.op = "running" =>
           /\ Mode = "RUNNING"
           /\ Mode' = IF call'.loss THEN "IDLE" ELSE "RUNNING"

\* C1: the tracking state is IDLE after construction; start_tracking takes it
\* to PULL_IN, the one general_work call in PULL_IN takes it to RUNNING, a
\* general_work call in RUNNING takes it to IDLE exactly when it declares loss
\* of lock, set_channel, set_gnss_synchro and general_work in IDLE leave it
\* alone, and pull_in is never true while enable_tracking is false.
C1_StateMachine ==
    /\ Mode = "IDLE"
    /\ [](d_pull_in => d_enable_tracking)
    /\ [][ModeStep]_vars

\* a run was started, reached RUNNING and fell back to IDLE on loss of lock
C1_Witness == Mode = "IDLE" /\ call.op = "running" /\ call.loss

\* C2: in the pull-in call samples_offset is round(acq_code_phase_samples +
\* vector_length - ((sample_counter - acq_sample_stamp) mod vector_length)),
\* the call consumes that many samples and advances sample_counter by it.
C2_Original ==
    (call.op = "pull_in" /\ d_acquisition_gnss_synchro = "bound") =>
        /\ call.samples_offset =
               RoundQ(d_acq_code_phase_samples
                      + Q * (VectorLength
                             - ((call.sample_counter - d_acq_sample_stamp)
                                    % VectorLength)))
        /\ call.consumed = call.samples_offset
        /\ d_sample_counter = call.sample_counter + call.samples_offset

\* C3: the pull-in call emits a synchronization record with the acquisition
\* fields: every output item it reports as produced was written with it.
C3_Original ==
    (call.op = "pull_in" /\ d_acquisition_gnss_synchro = "bound") =>
        /\ call.written = call.produced
        /\ AcqFields(out) = AcqFields(gnss_synchro)

\* C4: from a fail counter of 0, tracking stays enabled through
\* MAXIMUM_LOCK_FAIL_COUNTER consecutive failing windows and is disabled by
\* the call that evaluates the next one.
C4_LossAtWindow201 ==
    /\ [](run.streak <= MAXIMUM_LOCK_FAIL_COUNTER + 1)
    /\ [][(call'.failed /\ run.streak >= 0) =>
             /\ run'.streak = run.streak + 1
             /\ run'.streak <= MAXIMUM_LOCK_FAIL_COUNTER
                    => d_enable_tracking' /\ ~call'.loss
             /\ run'.streak = MAXIMUM_LOCK_FAIL_COUNTER + 1
                    => ~d_enable_tracking' /\ call'.loss]_vars

C4_Witness ==
    /\ run.streak = MAXIMUM_LOCK_FAIL_COUNTER + 1
    /\ call.op = "running"
    /\ call.loss
    /\ ~d_enable_tracking

\* the last message handled by the control queue is this channel's loss of lock
LastIsLossMessage ==
    /\ Len(queue) > 0
    /\ queue[Len(queue)] = <<d_channel, LOSS_OF_LOCK_COMMAND>>

\* the messages a loss of lock posts: one if the block has a queue
LossMessages == IF d_queue = "null" THEN 0 ELSE 1

C6_Original ==
    call.op = "running" =>
        /\ \E i \in 1..CN0_ESTIMATION_SAMPLES : d_Prompt_buffer[i] = d_Prompt
        /\ call.evaluated =>
               /\ Len(call.window) = CN0_ESTIMATION_SAMPLES
               /\ \A i \in 1..CN0_ESTIMATION_SAMPLES :
                      d_Prompt_buffer[i] = call.window[i]

\* the running epoch in which a run whose windows all fail loses lock
LossEpoch(c0) ==
    (CN0_ESTIMATION_SAMPLES + 1) * (MAXIMUM_LOCK_FAIL_COUNTER + 1) - c0

\* every window evaluated since start_tracking failed
AllWindowsFailed == run.fails = run.evals

C8_Original ==
    call.op = "running" =>
        /\ call.loss =>
               /\ call.posted = 1
               /\ LastIsLossMessage
               /\ ~d_enable_tracking
               /\ d_carrier_lock_fail_counter = 0
        /\ ~call.loss => call.posted = 0

\* C8 amended: each loss of lock posts exactly one message (channel, 2) when
\* the block has a control queue, and none when its queue pointer is null, in
\* the call that disables tracking and resets the fail counter; no call that
\* does not declare loss of lock changes the queue.
C8_OneMessagePerLoss ==
    /\ [](call.loss =>
             /\ call.posted = LossMessages
             /\ ~d_enable_tracking
             /\ d_carrier_lock_fail_counter = 0)
    /\ [][queue' # queue =>
             /\ call'.op = "running"
             /\ call'.loss
             /\ d_enable_tracking
             /\ queue' = Append(queue, <<d_channel, LOSS_OF_LOCK_COMMAND>>)]_vars
    /\ [][(call'.loss /\ d_enable_tracking /\ d_queue # "null")
             => Len(queue') = Len(queue) + 1]_vars

C8_Witness ==
    /\ call.op = "running"
    /\ call.loss
    /\ queue = << <<d_channel, LOSS_OF_LOCK_COMMAND>> >>
    /\ ~d_enable_tracking
    /\ d_carrier_lock_fail_counter = 0

\* C9: sample_counter increases strictly on every general_work call, by
\* samples_offset on the pull-in call and by current_prn_length_samples on
\* every other call, and so do the time stamps of successive running records.
C9_CounterIncreases ==
    [][/\ call'.op = "pull_in" =>
              /\ d_sample_counter' > d_sample_counter
              /\ d_sample_counter' - d_sample_counter
                     = SamplesOffset(d_sample_counter, d_acq_sample_stamp,
                                     d_next_prn_length_samples,
                                     d_acq_code_phase_samples)
       /\ call'.op \in {"running", "idle"} =>
              /\ d_sample_counter' > d_sample_counter
              /\ d_sample_counter' - d_sample_counter
                     = d_current_prn_length_samples'
       /\ (call.op = "running" /\ call'.op = "running") =>
              out'.Tracking_timestamp_secs > out.Tracking_timestamp_secs]_vars

\* a second running epoch in a row, of a length other than the nominal one
C9_Witness ==
    /\ call.op = "running"
    /\ run.epochs >= 2
    /\ d_current_prn_length_samples # VectorLength
    /\ call.consumed = d_current_prn_length_samples

\* C10: sample_counter equals the total of the consume_each amounts since
\* construction, in every state.
C10_CounterIsConsumed == d_sample_counter = consumed

\* after idle, pull-in and running calls
C10_Witness ==
    /\ call.op = "running"
    /\ consumed > 2 * VectorLength
    /\ d_sample_counter = call.sample_counter + call.consumed

\* C11: at each window evaluation the fail counter is incremented by 1 when
\* |lock| > threshold or CN0 < MINIMUM_VALID_CN0 and otherwise decremented
\* by 1 but never below 0 (the call that takes it past
\* MAXIMUM_LOCK_FAIL_COUNTER stores 0); an epoch without an evaluation leaves
\* it unchanged; between calls it lies in 0..MAXIMUM_LOCK_FAIL_COUNTER.
C11_FailCounter ==
    /\ [](d_carrier_lock_fail_counter \in 0..MAXIMUM_LOCK_FAIL_COUNTER)
    /\ [][call'.op = "running" =>
             IF call'.evaluated
             THEN /\ call'.fail_count =
                         IF \/ d_carrier_lock_test' > d_carrier_lock_threshold
                            \/ d_carrier_lock_test' < -d_carrier_lock_threshold
                            \/ d_CN0_SNV_dB_Hz' < MINIMUM_VALID_CN0
                         THEN d_carrier_lock_fail_counter + 1
                         ELSE IF d_carrier_lock_fail_counter = 0 THEN 0
                              ELSE d_carrier_lock_fail_counter - 1
                  /\ d_carrier_lock_fail_counter' =
                         IF call'.fail_count > MAXIMUM_LOCK_FAIL_COUNTER THEN 0
                         ELSE call'.fail_count
             ELSE d_carrier_lock_fail_counter' = d_carrier_lock_fail_counter]_vars

\* a window with a good C/N0 that fails on a negative lock test
C11_Witness ==
    /\ call.op = "running"
    /\ call.evaluated
    /\ d_carrier_lock_test = -(d_carrier_lock_threshold + 1)
    /\ d_CN0_SNV_dB_Hz = MINIMUM_VALID_CN0
    /\ d_carrier_lock_fail_counter = 2

\* C12: set_gnss_synchro followed by start_tracking resets all per-handoff
\* state: the loop and monitor state after the pair depends only on the
\* handoff record (it is what the pair gives on a newly constructed block).
C12_Original ==
    (call.op = "start_tracking" /\ d_acquisition_gnss_synchro = "bound") =>
        /\ d_carrier_lock_fail_counter = 0
        /\ d_cn0_estimation_counter = 0
        /\ d_Prompt_buffer = [i \in 1..CN0_ESTIMATION_SAMPLES |-> 0]
        /\ d_CN0_SNV_dB_Hz = 0
        /\ d_carrier_lock_test = 1
        /\ d_code_freq_hz = 0
        /\ d_carrier_doppler_hz = gnss_synchro.Acq_doppler_hz
        /\ d_rem_code_phase_samples = 0
        /\ d_next_rem_code_phase_samples = 0
        /\ d_rem_carr_phase_rad = 0
        /\ d_acc_carrier_phase_rad = 0
        /\ d_current_prn_length_samples = VectorLength
        /\ d_next_prn_length_samples = VectorLength

\* C13: while enable_tracking is true, at most one general_work call took the
\* pull-in branch since the last start_tracking call.
C13_OnePullIn == d_enable_tracking => run.pull_ins <= 1

\* tracking two epochs after its one pull-in
C13_Witness ==
    /\ d_enable_tracking
    /\ call.op = "running"
    /\ run.epochs >= 2
    /\ run.pull_ins = 1

\* C14: after every epoch, for every carrier Doppler and every starting
\* residual, 0 <= rem_carr_phase_rad < 2*pi.
C14_Original ==
    (call.op = "running" /\ d_acquisition_gnss_synchro = "bound") =>
        /\ d_rem_carr_phase_rad >= 0
        /\ d_rem_carr_phase_rad < TwoPiUnits

\* the four guard samples of ca_code repeat the other end of the code
CyclicExtended ==
    /\ d_ca_code[0] = d_ca_code[code_length_half_chips]
    /\ d_ca_code[1] = d_ca_code[code_length_half_chips + 1]
    /\ d_ca_code[code_length_half_chips + 2] = d_ca_code[2]
    /\ d_ca_code[code_length_half_chips + 3] = d_ca_code[3]

\* C15: after start_tracking ca_code[0] = ca_code[2L], ca_code[1] =
\* ca_code[2L+1], ca_code[2L+2] = ca_code[2] and ca_code[2L+3] = ca_code[3],
\* and no general_work call changes an element of ca_code.
C15_CyclicExtension ==
    /\ [](run.started => CyclicExtended)
    /\ [][call'.op \in {"pull_in", "running", "idle"} => d_ca_code' = d_ca_code]_vars

\* a code was generated, and the block tracked and went idle with it
C15_Witness ==
    /\ run.started
    /\ d_ca_code[2] # 0
    /\ d_ca_code[code_length_half_chips + 2] = d_ca_code[2]
    /\ call.op = "running"
    /\ run.epochs >= 2

\* C19: start_tracking reinitialises the PLL filter with the acquisition
\* Doppler and the DLL filter with zero, whatever the acquisition code phase.
C19_Original ==
    (call.op = "start_tracking" /\ d_acquisition_gnss_synchro = "bound") =>
        /\ d_carrier_loop_filter = gnss_synchro.Acq_doppler_hz
        /\ d_code_loop_filter = 0

\* C16: after update_local_code, for every i below current_prn_length_samples,
\* early_code[i] = very_early_code[i + vel - el], prompt_code[i] =
\* very_early_code[i + vel], late_code[i] = very_early_code[i + vel + el] and
\* very_late_code[i] = very_early_code[i + 2*vel], vel and el being the
\* spacings in samples, for every pair of spacings with vel > el.
C16_Original ==
    call.op = "running" =>
        LET el == local_code.early_late_spc_samples
            vel == local_code.very_early_late_spc_samples
        IN  \A i \in 0..(d_current_prn_length_samples - 1) :
                /\ d_early_code[i] = d_very_early_code[i + vel - el]
                /\ d_prompt_code[i] = d_very_early_code[i + vel]
                /\ d_late_code[i] = d_very_early_code[i + vel + el]
                /\ d_very_late_code[i] = d_very_early_code[i + 2 * vel]

\* C17: in update_local_code, at every loop index, for every code-phase
\* residual and every configured very-early-late spacing, the remainder used
\* for chip selection is non-negative and the index read from ca_code lies
\* in [0, 2L+3].
C17_Original ==
    call.op = "running" =>
        \A i \in DOMAIN chip_remainder :
            /\ chip_remainder[i] >= 0
            /\ local_code.associated_chip_index[i] \in 0..(code_length_half_chips + 3)

\* C18: in every running epoch the entries written to very_early_code,
\* current_prn_length_samples + 2*vel_spc_samples, and every tap window read
\* from it, stay within the 2 * vector_length allocated elements, for every
\* sequence of code errors fed to the DLL filter.
C18_Original ==
    call.op = "running" =>
        /\ local_code.epl_loop_length_samples <= 2 * VectorLength
        /\ VeryLateOffset(local_code.early_late_spc_samples,
                          local_code.very_early_late_spc_samples)
               + d_current_prn_length_samples <= 2 * VectorLength

\* C20: with dump enabled and the dump file open, every general_work call
\* that returns an epoch appends one 84-byte record, so after k returned
\* calls since set_channel the file holds k records; the record's
\* sample_counter is the value before the call's advance and its last field
\* is sample_counter + current_prn_length_samples.
C20_Original ==
    Dumping =>
        /\ Len(d_dump_file.records) = run.returned
        /\ call.op \in {"pull_in", "running", "idle"} =>
               /\ d_dump_file.records # <<>>
               /\ LET record == d_dump_file.records[Len(d_dump_file.records)]
                  IN  /\ record.bytes = 84
                      /\ record.sample_counter = call.sample_counter
                      /\ record.sample_counter_end =
                             call.sample_counter + d_current_prn_length_samples

\* every d_dump_file.open of set_channel has failed so far
OpenFailed == d_dump /\ ~d_dump_file.is_open /\ d_dump_filename # <<>>

\* C21: if opening the dump file fails in set_channel, dump is disabled for
\* the channel: no later general_work call attempts a dump write, and a later
\* set_channel call uses the same file name as the first.
C21_Original ==
    OpenFailed =>
        /\ call.op \in {"pull_in", "running", "idle"} => ~call.dump_attempt
        /\ call.op = "set_channel" => d_dump_filename = SubSeq(d_dump_filename, 1, 1)

\* the handoff a pull-in call aligned to had its code phase within one
\* period and its sample stamp not ahead of the block's sample counter
HandoffBehind ==
    /\ d_acq_code_phase_samples >= 0
    /\ d_acq_code_phase_samples < Q * VectorLength
    /\ d_acq_sample_stamp <= call.sample_counter

EpochStep == call'.op = "running" /\ run'.epochs = run.epochs + 1

C23_EpochStep ==
    /\ EpochStep =>
           /\ call'.consumed = d_next_prn_length_samples
           /\ consumed' = consumed + d_next_prn_length_samples
           /\ d_current_prn_length_samples' = d_next_prn_length_samples
           /\ call'.produced = 1
           /\ call'.written = 1
           /\ run.epochs = 0 => call'.consumed = VectorLength
    /\ (~EpochStep /\ call'.op # "start_tracking") =>
           UNCHANGED d_next_prn_length_samples
    /\ call'.op = "start_tracking" => d_next_prn_length_samples' = VectorLength

C23_EpochConsumesNextPrnLength == [][C23_EpochStep]_vars

\* a later epoch of a run that consumed a length other than vector_length and
\* computed yet another length for the epoch after it
C23_Witness ==
    /\ call.op = "running"
    /\ run.epochs >= 2
    /\ call.consumed # VectorLength
    /\ d_next_prn_length_samples # call.consumed

\* C24: each epoch rounds the period plus the remainder of the epoch before
\* and keeps the difference, so the remainder never exceeds half a sample
\* and, between any two epochs of a run, the lengths computed add up to the
\* exact periods to within one sample (run.drift is the sum of the lengths
\* minus the sum of the periods since start_tracking, run.lo and run.hi its
\* extremes)
C24_EpochStep ==
    EpochStep =>
        LET K == T_prn_samples(d_code_freq_hz') + d_next_rem_code_phase_samples
        IN  /\ d_rem_code_phase_samples' = d_next_rem_code_phase_samples
            /\ d_next_prn_length_samples' = RoundQ(K)
            /\ d_next_rem_code_phase_samples' = K - Q * d_next_prn_length_samples'
            /\ 2 * Abs(d_next_rem_code_phase_samples') <= Q
            /\ run'.drift = run.drift + Q * d_next_prn_length_samples'
                                - T_prn_samples(d_code_freq_hz')
            /\ run'.hi - run'.lo <= Q

C24_RemainderCarried == [][C24_EpochStep]_vars

\* a run in which a remainder of half a sample was carried into an epoch
\* that left no remainder, after the lengths had been ahead of the periods
C24_Witness ==
    /\ call.op = "running"
    /\ run.epochs >= 3
    /\ d_rem_code_phase_samples # 0
    /\ d_next_rem_code_phase_samples = 0
    /\ run.hi - run.lo > 0

\* C25: the epoch whose window evaluation declares loss of lock still writes
\* its record, with the prompt and carrier phase of that epoch, consumes
\* d_current_prn_length_samples samples and advances d_sample_counter by as
\* many before it returns, with tracking disabled
C25_LossStep ==
    (EpochStep /\ call'.loss) =>
        /\ ~d_enable_tracking'
        /\ call'.produced = 1
        /\ call'.written = 1
        /\ out'.Prompt_I = d_Prompt'
        /\ out'.Carrier_phase_rads = d_acc_carrier_phase_rad'
        /\ out'.Tracking_timestamp_secs =
               Q * d_sample_counter + Q * d_next_prn_length_samples'
                   + d_next_rem_code_phase_samples'
        /\ d_current_prn_length_samples' > 0
        /\ call'.consumed = d_current_prn_length_samples'
        /\ consumed' = consumed + d_current_prn_length_samples'
        /\ d_sample_counter' = d_sample_counter + d_current_prn_length_samples'

C25_LossEpochCompletes == [][C25_LossStep]_vars

\* the call that declared loss of lock has returned: one record written,
\* one PRN length consumed and counted
C25_Witness ==
    /\ call.op = "running"
    /\ call.loss
    /\ ~d_enable_tracking
    /\ call.written = 1
    /\ call.consumed = d_current_prn_length_samples
    /\ d_sample_counter = call.sample_counter + call.consumed

\* C26: while tracking is disabled every general_work call takes the idle
\* branch: it outputs one default record, consumes
\* d_current_prn_length_samples samples and advances d_sample_counter by as
\* many, and leaves the lock monitor, the NCO frequencies, the phase
\* residuals, d_next_prn_length_samples and d_ca_code as they were
WorkStep == call'.op \in {"pull_in", "running", "idle"}

C26_IdleStep ==
    /\ (WorkStep /\ ~d_enable_tracking) => call'.op = "idle"
    /\ call'.op = "idle" =>
           /\ ~d_enable_tracking /\ ~d_enable_tracking'
           /\ call'.produced = 1
           /\ call'.written = 1
           /\ out' = DefaultSynchro
           /\ d_current_prn_length_samples > 0
           /\ call'.consumed = d_current_prn_length_samples
           /\ consumed' = consumed + d_current_prn_length_samples
           /\ d_sample_counter' = d_sample_counter + d_current_prn_length_samples
           /\ UNCHANGED <<d_carrier_lock_fail_counter, d_cn0_estimation_counter,
                          d_Prompt_buffer, d_code_freq_hz, d_carrier_doppler_hz,
                          d_rem_code_phase_samples, d_next_rem_code_phase_samples,
                          d_rem_carr_phase_rad, d_next_prn_length_samples,
                          d_current_prn_length_samples, d_ca_code>>

C26_IdleOutputsAndKeepsState == [][C26_IdleStep]_vars

\* an idle call after a loss of lock: a default record replaced the record
\* of the last epoch while the prompt buffer of the last window is kept
C26_Witness ==
    /\ call.op = "idle"
    /\ run.evals > MAXIMUM_LOCK_FAIL_COUNTER
    /\ out = DefaultSynchro
    /\ d_Prompt_buffer[CN0_ESTIMATION_SAMPLES] > 0
    /\ d_sample_counter = call.sample_counter + d_current_prn_length_samples

\* C27: the record a running epoch emits carries the acquisition fields that
\* start_tracking captured at the last handoff (the code phase, Doppler and
\* stamp it copied into the block, and the PRN whose code it generated into
\* d_ca_code), also when the handoff record was written after that call
C27_Original ==
    call.op = "running" =>
        /\ out.Acq_delay_samples = d_acq_code_phase_samples
        /\ out.Acq_doppler_hz = d_acq_carrier_doppler_hz
        /\ out.Acq_samplestamp_samples = d_acq_sample_stamp
        /\ d_ca_code = CyclicExtension(GeneratedCode(d_ca_code, out.PRN))
====
